---- MODULE Spec2Model ----
(***************************************************************************)
(* Model of the conversation-to-answer orchestration of the chat backend:  *)
(*   - ChatApproach.get_messages_from_history (token-budgeted prompt)      *)
(*   - ChatApproach.extract_followup_questions / run_without_streaming     *)
(*   - ChatApproach.run_with_streaming (follow-up marker state machine)    *)
(* Text is modelled as a sequence of one-character strings.                *)
(***************************************************************************)
EXTENDS Integers, Sequences, FiniteSets, TLC

\* ---------------------------------------------------------------------
\* Bounds of the model
\* ---------------------------------------------------------------------
MaxHist == 4        \* longest history (including the newest entry)
MaxCeil == 30       \* largest token ceiling tried
MaxContent == 7     \* longest completion content of a non-streamed reply
MaxStream == 5      \* longest streamed reply, counting each character of the
                    \* content and each upstream event that carries no text
MaxTools == 2       \* most tool calls in a query-distillation response
MaxText == 2        \* longest plain-text content of a query-distillation response
MaxTurns == 2       \* most earlier turns in the history of a request
MaxSources == 2     \* most documents a search returns

\* ---------------------------------------------------------------------
\* Chat roles (ChatApproach.SYSTEM / USER / ASSISTANT)
\* ---------------------------------------------------------------------
SYSTEM == "system"
USER == "user"
ASSISTANT == "assistant"

VARIABLES
    \* get_messages_from_history
    few_shots,            \* parameter few_shots
    history,              \* parameter history
    user_content,         \* parameter user_content
    max_tokens,           \* parameter max_tokens
    messages,             \* message_builder.messages
    total_token_count,    \* local total_token_count
    newest_to_oldest,     \* part of newest_to_oldest the loop has not visited
    truncated,            \* TRUE once the loop hit its break
    apc,                  \* position in get_messages_from_history
    \* run_without_streaming
    overrides,            \* overrides of the request
    completion,           \* content of the model's full response
    chat_resp,            \* chat_resp["choices"][0] of run_without_streaming
    rpc,                  \* position in run_without_streaming
    \* run_with_streaming
    stream_rest,                  \* text the upstream stream has yet to deliver
    quiet,                        \* upstream events so far that carried no text
    skipped,                      \* upstream events so far that had no choices
    stream_handle,                \* the completion stream: unopened, open, exhausted
    asked,                        \* events the caller has asked the generator for
    followup_questions_started,   \* local followup_questions_started
    followup_content,             \* local followup_content
    emitted,                      \* events yielded to the caller, in order
    spc,                          \* position in run_with_streaming
    \* run_until_final_call and the run methods
    approach,             \* the approach that serves the request
    stream,               \* parameter stream of run
    retrieval,            \* overrides retrieval_mode and vector_fields
    original_user_query,  \* history[-1]["content"]
    token_limit,          \* self.chatgpt_token_limit
    chat_completion,      \* message of the query-distillation response
    query_text,           \* local query_text
    vectors,              \* local vectors
    calls,                \* calls made to the collaborators, in order
    failure,              \* the error that left the request, "none" without one
    outcome,              \* what run handed to the caller
    ppc                   \* position of the request

asmVars == <<few_shots, history, user_content, max_tokens, messages,
             total_token_count, newest_to_oldest, truncated, apc>>

requestVars == <<overrides, completion>>

replyVars == <<chat_resp, rpc>>

streamVars == <<stream_rest, quiet, skipped, stream_handle, asked,
                followup_questions_started, followup_content, emitted, spc>>

pipeVars == <<approach, stream, retrieval, original_user_query, token_limit,
              chat_completion, query_text, vectors, calls, failure, outcome, ppc>>

vars == <<asmVars, requestVars, replyVars, streamVars, pipeVars>>

\* ---------------------------------------------------------------------
\* Messages and the token-counting collaborator
\* ---------------------------------------------------------------------
\* Message contents of the model and the number of tokens each encodes to.
Texts == {"sys", "q", "a", "long", "shotq", "shota", "request", "sources", "book",
          "sample question", "sample answer",
          "question, no source", "question, one source", "question, sources"}

ContentTokens(c) ==
    CASE c = "sys"     -> 3
      [] c = "q"       -> 1
      [] c = "a"       -> 2
      [] c = "long"    -> 5
      [] c = "shotq"   -> 1
      [] c = "shota"   -> 1
      [] c = "request" -> 6
      [] c = "sources" -> 9
      [] c = "book"    -> 2000
      [] c = "sample question" -> 9
      [] c = "sample answer"   -> 4
      [] c = "question, no source"  -> 2
      [] c = "question, one source" -> 5
      [] c = "question, sources"    -> 9

\* A content the token counter can encode: a string or a list of parts.  A
\* mapping used as content ("map") makes it raise ValueError.
Encodable(m) == m.content \in Texts

Msg(role, content) == [role |-> role, content |-> content]

\* num_tokens_from_messages: 2 for the keys, plus the encoded length of every
\* value (a role name encodes to one token).
count_tokens_for_message(m) == 2 + 1 + ContentTokens(m.content)

\* MessageBuilder(system_content, model).messages
MessageBuilder(system_prompt) == <<Msg(SYSTEM, system_prompt)>>

\* list.insert(index, x): an index past the end appends.
ListInsert(s, index, x) ==
    LET i == IF index > Len(s) THEN Len(s) ELSE index
    IN  SubSeq(s, 1, i) \o <<x>> \o SubSeq(s, i + 1, Len(s))

\* MessageBuilder.insert_message(role, content, index=1); index is 0-based.
insert_message(msgs, role, content, index) ==
    ListInsert(msgs, index, Msg(role, content))

RECURSIVE SumTokens(_)
SumTokens(s) ==
    IF s = <<>> THEN 0
    ELSE count_tokens_for_message(Head(s)) + SumTokens(Tail(s))

RECURSIVE Reverse(_)
Reverse(s) == IF s = <<>> THEN <<>> ELSE Reverse(Tail(s)) \o <<Head(s)>>

\* for shot in reversed(few_shots): insert_message(role, content)
RECURSIVE InsertShots(_, _)
InsertShots(msgs, revShots) ==
    IF revShots = <<>> THEN msgs
    ELSE InsertShots(insert_message(msgs, Head(revShots).role,
                                    Head(revShots).content, 1),
                     Tail(revShots))

\* history[:-1]
AllButLast(s) == IF s = <<>> THEN <<>> ELSE SubSeq(s, 1, Len(s) - 1)

\* An off-by-one append index: the slot before the last few-shot example.
append_index_off_by_one == Len(few_shots)

\* append_index = len(few_shots) + 1
append_index == Len(few_shots) + 1

\* ---------------------------------------------------------------------
\* Text: a string is a sequence of one-character strings
\* ---------------------------------------------------------------------
Chars == {"<", ">", "q"}

StringsUpTo(n) == UNION {[1..k -> Chars] : k \in 0..n}

\* s[i:] with a 1-based i
From(s, i) == SubSeq(s, i, Len(s))

\* "<<" starts at position i of s
MarkerAt(s, i) == i >= 1 /\ i + 1 <= Len(s) /\ s[i] = "<" /\ s[i + 1] = "<"

\* ">>" starts at position i of s
CloseAt(s, i) == i >= 1 /\ i + 1 <= Len(s) /\ s[i] = ">" /\ s[i + 1] = ">"

\* "<<" in s
HasMarker(s) == \E i \in 1..Len(s) : MarkerAt(s, i)

\* s.index("<<"), 1-based; only used where "<<" in s
RECURSIVE IndexFrom(_, _)
IndexFrom(s, i) ==
    IF i > Len(s) THEN 0
    ELSE IF MarkerAt(s, i) THEN i
    ELSE IndexFrom(s, i + 1)

Index(s) == IndexFrom(s, 1)

\* A split that cuts at the last "<<" instead of the first.
SplitAtLast(s) ==
    IF ~HasMarker(s) THEN s
    ELSE LET i == CHOOSE j \in 1..Len(s) :
                      MarkerAt(s, j) /\ \A k \in (j + 1)..Len(s) : ~MarkerAt(s, k)
         IN  SubSeq(s, 1, i - 1)

\* A split that keeps the first "<<" at the end of the visible text.
SplitKeepingMarker(s) ==
    IF ~HasMarker(s) THEN s
    ELSE LET i == CHOOSE j \in 1..Len(s) :
                      MarkerAt(s, j) /\ \A k \in 1..(j - 1) : ~MarkerAt(s, k)
         IN  SubSeq(s, 1, i + 1)

\* content.split("<<")[0]: the characters scanned before the first "<<"
RECURSIVE SplitFirst(_)
SplitFirst(s) ==
    IF s = <<>> THEN <<>>
    ELSE IF MarkerAt(s, 1) THEN <<>>
    ELSE <<Head(s)>> \o SplitFirst(Tail(s))

\* Length of the longest run of characters other than ">" that starts at i.
RECURSIVE RunNotClose(_, _)
RunNotClose(s, i) ==
    IF i > Len(s) \/ s[i] = ">" THEN 0
    ELSE 1 + RunNotClose(s, i + 1)

\* re.findall(r"<<([^>>]+)>>", s) from position i on: the class [^>>] is the
\* class [^>], so a match is "<<", one or more characters other than ">",
\* then ">>"; matches do not overlap.
RECURSIVE FindAllFrom(_, _)
FindAllFrom(s, i) ==
    IF i > Len(s) THEN <<>>
    ELSE IF MarkerAt(s, i)
         THEN LET n == RunNotClose(s, i + 2)
              IN  IF n >= 1 /\ CloseAt(s, i + 2 + n)
                  THEN <<SubSeq(s, i + 2, i + 1 + n)>> \o FindAllFrom(s, i + 4 + n)
                  ELSE FindAllFrom(s, i + 1)
         ELSE FindAllFrom(s, i + 1)

re_findall(s) == FindAllFrom(s, 1)

\* extract_followup_questions(content)
extract_followup_questions(content) == <<SplitFirst(content), re_findall(content)>>

\* ---------------------------------------------------------------------
\* Inputs of get_messages_from_history
\* ---------------------------------------------------------------------
SystemPrompt == "sys"

\* query_prompt_few_shots, cut to a user/assistant pair
ShotList == <<Msg(USER, "shotq"), Msg(ASSISTANT, "shota")>>

FewShotChoices == {SubSeq(ShotList, 1, n) : n \in 0..Len(ShotList)}

HistoryMsgs == {Msg(USER, "q"), Msg(ASSISTANT, "a"), Msg(USER, "long")}

Histories == UNION {[1..n -> HistoryMsgs] : n \in 0..MaxHist}

UserContents == {"q", "long"}

\* ---------------------------------------------------------------------
\* run_without_streaming
\* ---------------------------------------------------------------------
NoFollowups == [attached |-> FALSE, followup_questions |-> <<>>]

\* Lines 157-162: the dumped response, its content split when follow-up
\* questions were asked for.
PostProcess(content, suggest) ==
    IF suggest
    THEN [content |-> extract_followup_questions(content)[1],
          context |-> [attached |-> TRUE,
                       followup_questions |-> extract_followup_questions(content)[2]]]
    ELSE [content |-> content, context |-> NoFollowups]

\* Lines 153-164: the completion has returned.
RunWithoutStreaming ==
    /\ rpc = "await"
    /\ chat_resp' = PostProcess(completion, overrides.suggest_followup_questions)
    /\ rpc' = "done"
    /\ UNCHANGED <<overrides, completion>>

ReplyNext == RunWithoutStreaming /\ UNCHANGED <<asmVars, streamVars, pipeVars>>


\* ---------------------------------------------------------------------
\* Properties of run_without_streaming and extract_followup_questions
\* ---------------------------------------------------------------------
\* The scenario of the specification: "The answer. <<Q1?>><<Q2?>>"
ScenarioContent ==
    <<"T", "h", "e", " ", "a", "n", "s", "w", "e", "r", ".", " ",
      "<", "<", "Q", "1", "?", ">", ">", "<", "<", "Q", "2", "?", ">", ">">>

ScenarioVisible == <<"T", "h", "e", " ", "a", "n", "s", "w", "e", "r", ".", " ">>

ScenarioQuestions == <<(<<"Q", "1", "?">>), (<<"Q", "2", "?">>)>>

\* v is everything of s before its first "<<" (all of s when it has none).
IsTextBeforeFirstMarker(v, s) ==
    /\ Len(v) <= Len(s)
    /\ v = SubSeq(s, 1, Len(v))
    /\ \A i \in 1..Len(v) : ~MarkerAt(s, i)
    /\ Len(v) = Len(s) \/ MarkerAt(s, Len(v) + 1)

\* C9: with follow-up questions requested the reply's content is everything
\* before the first "<<" and the extracted list is attached to the context
\* (the scenario gives "The answer. " and ["Q1?", "Q2?"]); without the request
\* the content is the completion's, unmodified, and no list is attached.
C9_NonStreamingSplit ==
    rpc = "done" =>
        /\ overrides.suggest_followup_questions =>
              /\ IsTextBeforeFirstMarker(chat_resp.content, completion)
              /\ chat_resp.context.attached
              /\ chat_resp.context.followup_questions = re_findall(completion)
        /\ ~overrides.suggest_followup_questions =>
              /\ chat_resp.content = completion
              /\ ~chat_resp.context.attached
        /\ PostProcess(ScenarioContent, TRUE) =
              [content |-> ScenarioVisible,
               context |-> [attached |-> TRUE,
                            followup_questions |-> ScenarioQuestions]]

\* A reply split at the first of two markers, with text before it.
C9_Witness ==
    /\ rpc = "done"
    /\ overrides.suggest_followup_questions
    /\ chat_resp.content # <<>>
    /\ chat_resp.content # completion
    /\ Len(chat_resp.context.followup_questions) = 1
    /\ \E i, j \in 1..Len(completion) : i # j /\ MarkerAt(completion, i)
                                          /\ MarkerAt(completion, j)

\* Start of the nearest ">>" that closes a "<<" at i with a non-empty inner
\* text, 0 when there is none.
RECURSIVE NearestClose(_, _)
NearestClose(s, j) ==
    IF j > Len(s) THEN 0
    ELSE IF CloseAt(s, j) THEN j
    ELSE NearestClose(s, j + 1)

\* The inner texts of the "<<...>>" spans of s from position i on, each "<<"
\* paired with the nearest following ">>" (the regular expression <<(.+?)>>).
RECURSIVE NonGreedySpansFrom(_, _)
NonGreedySpansFrom(s, i) ==
    IF i > Len(s) THEN <<>>
    ELSE IF MarkerAt(s, i)
         THEN LET j == NearestClose(s, i + 3)
              IN  IF j # 0
                  THEN <<SubSeq(s, i + 2, j - 1)>> \o NonGreedySpansFrom(s, j + 2)
                  ELSE NonGreedySpansFrom(s, i + 1)
         ELSE NonGreedySpansFrom(s, i + 1)

NonGreedySpans(s) == NonGreedySpansFrom(s, 1)

\* C10 as stated: the follow-up list is the inner text of every "<<...>>"
\* span of the content, each "<<" paired with the nearest following ">>", in
\* order of appearance.
C10_AsStated ==
    (rpc = "done" /\ overrides.suggest_followup_questions)
        => chat_resp.context.followup_questions = NonGreedySpans(completion)

\* C11: the visible text of an extraction holds no "<<", so extracting again
\* from it gives an empty follow-up list and the same visible text.
C11_ExtractionIdempotent ==
    (rpc = "done" /\ overrides.suggest_followup_questions)
        => /\ ~HasMarker(chat_resp.content)
           /\ extract_followup_questions(chat_resp.content)
                 = <<chat_resp.content, <<>>>>

\* A reply whose completion held text before the marker and a question.
C11_Witness ==
    /\ rpc = "done"
    /\ overrides.suggest_followup_questions
    /\ chat_resp.content # <<>>
    /\ chat_resp.context.followup_questions # <<>>
    /\ HasMarker(completion)
    /\ Len(completion) > Len(chat_resp.content) + 5

\* ---------------------------------------------------------------------
\* run_with_streaming
\* ---------------------------------------------------------------------
\* The response of the scenario: "Here is <<Q1?>>".
StreamScenario ==
    <<"H", "e", "r", "e", " ", "i", "s", " ", "<", "<", "Q", "1", "?", ">", ">">>

\* The events the generator yields.  kind tells the yield statement apart:
\* "context" (line 176), "delta" (an upstream event, lines 203 and 208) and
\* "followup" (line 211).  has_content is FALSE where the delta has no
\* content key or a None content.
ContextEvent ==
    [kind |-> "context", has_content |-> FALSE, content |-> <<>>,
     followup_questions |-> <<>>]

DeltaEvent(has_content, content) ==
    [kind |-> "delta", has_content |-> has_content, content |-> content,
     followup_questions |-> <<>>]

FollowupEvent(questions) ==
    [kind |-> "followup", has_content |-> FALSE, content |-> <<>>,
     followup_questions |-> questions]

\* The generator runs only while a request of the caller for the next event
\* is outstanding; at a yield it is suspended until the caller asks again.
Running == Len(emitted) < asked

\* The caller asks the generator for its next event (__anext__).
CallerAsksNext ==
    /\ spc \in {"start", "stream"}
    /\ asked = Len(emitted)
    /\ asked' = asked + 1
    /\ UNCHANGED <<stream_rest, quiet, skipped, stream_handle,
                   followup_questions_started, followup_content, emitted, spc>>

\* A start that sets the locals and yields no context event.
YieldNothingAtStart ==
    /\ spc = "start"
    /\ Running
    /\ emitted' = emitted
    /\ followup_questions_started' = FALSE
    /\ followup_content' = <<>>
    /\ spc' = "stream"
    /\ UNCHANGED <<stream_rest, quiet, skipped, stream_handle, asked>>

\* Lines 173-190: run_until_final_call has returned; the context event is
\* yielded and, when the caller asks again, the locals of the loop are set.
YieldContext ==
    /\ spc = "start"
    /\ Running
    /\ emitted' = Append(emitted, ContextEvent)
    /\ followup_questions_started' = FALSE
    /\ followup_content' = <<>>
    /\ spc' = "stream"
    /\ UNCHANGED <<stream_rest, quiet, skipped, stream_handle, asked>>

\* A completion call that is started as soon as the generator runs.
AwaitChatCoroutineAtStart ==
    /\ spc \in {"start", "stream"}
    /\ Running
    /\ stream_handle = "unopened"
    /\ stream_handle' = "open"
    /\ UNCHANGED <<stream_rest, quiet, skipped, asked, followup_questions_started,
                   followup_content, emitted, spc>>

\* Line 191, "await chat_coroutine": the completion call is started and
\* returns the stream.
AwaitChatCoroutine ==
    /\ spc = "stream"
    /\ Running
    /\ stream_handle = "unopened"
    /\ stream_handle' = "open"
    /\ UNCHANGED <<stream_rest, quiet, skipped, asked, followup_questions_started,
                   followup_content, emitted, spc>>

\* A handler that yields an event for the delta with the marker even when
\* nothing precedes the marker.
HandleDeltaYieldingEmptyPrefix(has_content, content) ==
    IF overrides.suggest_followup_questions /\ HasMarker(content)
    THEN LET earlier_content == SubSeq(content, 1, Index(content) - 1)
         IN  /\ followup_questions_started' = TRUE
             /\ emitted' = Append(emitted, DeltaEvent(TRUE, earlier_content))
             /\ followup_content' = followup_content \o From(content, Index(content))
    ELSE IF followup_questions_started
    THEN /\ followup_content' = followup_content \o content
         /\ UNCHANGED <<followup_questions_started, emitted>>
    ELSE /\ emitted' = Append(emitted, DeltaEvent(has_content, content))
         /\ UNCHANGED <<followup_questions_started, followup_content>>

\* A handler that looks for the marker whether or not follow-up questions
\* were requested.
HandleDeltaIgnoringOverrides(has_content, content) ==
    IF HasMarker(content)
    THEN LET earlier_content == SubSeq(content, 1, Index(content) - 1)
         IN  /\ followup_questions_started' = TRUE
             /\ emitted' = IF earlier_content # <<>>
                           THEN Append(emitted, DeltaEvent(TRUE, earlier_content))
                           ELSE emitted
             /\ followup_content' = followup_content \o From(content, Index(content))
    ELSE IF followup_questions_started
    THEN /\ followup_content' = followup_content \o content
         /\ UNCHANGED <<followup_questions_started, emitted>>
    ELSE /\ emitted' = Append(emitted, DeltaEvent(has_content, content))
         /\ UNCHANGED <<followup_questions_started, followup_content>>

\* A handler that, once accumulating, passes on the events that have
\* nothing to add to the buffer.
HandleDeltaPassingEmptyEvents(has_content, content) ==
    IF overrides.suggest_followup_questions /\ HasMarker(content)
    THEN LET earlier_content == SubSeq(content, 1, Index(content) - 1)
         IN  /\ followup_questions_started' = TRUE
             /\ emitted' = IF earlier_content # <<>>
                           THEN Append(emitted, DeltaEvent(TRUE, earlier_content))
                           ELSE emitted
             /\ followup_content' = followup_content \o From(content, Index(content))
    ELSE IF followup_questions_started /\ content # <<>>
    THEN /\ followup_content' = followup_content \o content
         /\ UNCHANGED <<followup_questions_started, emitted>>
    ELSE /\ emitted' = Append(emitted, DeltaEvent(has_content, content))
         /\ UNCHANGED <<followup_questions_started, followup_content>>

\* Lines 193-208 for an upstream event with choices whose delta carries
\* content (has_content FALSE: no content, read as "").
HandleDelta(has_content, content) ==
    IF overrides.suggest_followup_questions /\ HasMarker(content)
    THEN LET earlier_content == SubSeq(content, 1, Index(content) - 1)
         IN  /\ followup_questions_started' = TRUE
             /\ emitted' = IF earlier_content # <<>>
                           THEN Append(emitted, DeltaEvent(TRUE, earlier_content))
                           ELSE emitted
             /\ followup_content' = followup_content \o From(content, Index(content))
    ELSE IF followup_questions_started
    THEN /\ followup_content' = followup_content \o content
         /\ UNCHANGED <<followup_questions_started, emitted>>
    ELSE /\ emitted' = Append(emitted, DeltaEvent(has_content, content))
         /\ UNCHANGED <<followup_questions_started, followup_content>>

\* The upstream stream delivers the next k characters of the response.
UpstreamText ==
    /\ spc = "stream"
    /\ Running
    /\ stream_handle = "open"
    /\ \E k \in 1..Len(stream_rest) :
           /\ HandleDelta(TRUE, SubSeq(stream_rest, 1, k))
           /\ stream_rest' = From(stream_rest, k + 1)
    /\ UNCHANGED <<quiet, skipped, stream_handle, asked>>

\* The upstream stream delivers an event with choices and no text: content
\* "" or no content at all (the role marker, the finish_reason).
UpstreamNoText ==
    /\ spc = "stream"
    /\ Running
    /\ stream_handle = "open"
    /\ Len(completion) + quiet < MaxStream
    /\ \E has_content \in BOOLEAN : HandleDelta(has_content, <<>>)
    /\ quiet' = quiet + 1
    /\ UNCHANGED <<stream_rest, skipped, stream_handle, asked>>

\* An event with empty choices handled as if it had a delta without content.
UpstreamNoChoicesAsDelta ==
    /\ spc = "stream"
    /\ Running
    /\ stream_handle = "open"
    /\ Len(completion) + quiet < MaxStream
    /\ HandleDelta(FALSE, <<>>)
    /\ quiet' = quiet + 1
    /\ skipped' = skipped + 1
    /\ UNCHANGED <<stream_rest, stream_handle, asked>>

\* Line 194: an upstream event with empty choices.
UpstreamNoChoices ==
    /\ spc = "stream"
    /\ Running
    /\ stream_handle = "open"
    /\ Len(completion) + quiet < MaxStream
    /\ quiet' = quiet + 1
    /\ skipped' = skipped + 1
    /\ UNCHANGED <<stream_rest, stream_handle, asked, followup_questions_started,
                   followup_content, emitted>>

\* An end of stream that yields the follow-up event whatever the buffer holds.
StreamEndAlwaysYields ==
    /\ spc = "stream"
    /\ Running
    /\ stream_handle = "open"
    /\ stream_rest = <<>>
    /\ emitted' = Append(emitted,
                         FollowupEvent(extract_followup_questions(followup_content)[2]))
    /\ spc' = "done"
    /\ stream_handle' = "exhausted"
    /\ UNCHANGED <<stream_rest, quiet, skipped, asked, followup_questions_started,
                   followup_content>>

\* Lines 209-221: the upstream stream has ended.
StreamEnd ==
    /\ spc = "stream"
    /\ Running
    /\ stream_handle = "open"
    /\ stream_rest = <<>>
    /\ emitted' = IF followup_content # <<>>
                  THEN Append(emitted,
                              FollowupEvent(extract_followup_questions(followup_content)[2]))
                  ELSE emitted
    /\ spc' = "done"
    /\ stream_handle' = "exhausted"
    /\ UNCHANGED <<stream_rest, quiet, skipped, asked, followup_questions_started,
                   followup_content>>

otherThanStream == <<asmVars, requestVars, replyVars, pipeVars>>

StreamNext ==
    \/ CallerAsksNext /\ UNCHANGED otherThanStream
    \/ YieldContext /\ UNCHANGED otherThanStream
    \/ AwaitChatCoroutine /\ UNCHANGED otherThanStream
    \/ UpstreamText /\ UNCHANGED spc /\ UNCHANGED otherThanStream
    \/ UpstreamNoText /\ UNCHANGED spc /\ UNCHANGED otherThanStream
    \/ UpstreamNoChoices /\ UNCHANGED spc /\ UNCHANGED otherThanStream
    \/ StreamEnd /\ UNCHANGED otherThanStream


\* ---------------------------------------------------------------------
\* A caller that abandons the stream
\* ---------------------------------------------------------------------
\* The caller stops iterating the generator run_with_streaming returned.  The
\* generator has no try/finally and no "async with" around the stream (lines
\* 191-208), so no statement of it runs and the stream handle stays as it is.
CallerAbandons ==
    /\ spc = "stream"
    /\ spc' = "abandoned"
    /\ UNCHANGED <<stream_rest, quiet, skipped, stream_handle, asked,
                   followup_questions_started, followup_content, emitted>>

\* The runtime may, at a time of its choosing, collect the abandoned
\* generator and the stream object it referred to.
RuntimeCollects ==
    /\ spc = "abandoned"
    /\ stream_handle = "open"
    /\ stream_handle' = "collected"
    /\ UNCHANGED <<stream_rest, quiet, skipped, asked, followup_questions_started,
                   followup_content, emitted, spc>>

CancelNext ==
    \/ StreamNext
    \/ CallerAbandons /\ UNCHANGED otherThanStream
    \/ RuntimeCollects /\ UNCHANGED otherThanStream

\* C19 as stated: there is no reachable state in which the caller has stopped
\* consuming and the upstream stream is open and unreleased.
C19_AsStated == ~(spc = "abandoned" /\ stream_handle = "open")

\* ---------------------------------------------------------------------
\* Properties of run_with_streaming
\* ---------------------------------------------------------------------
\* The visible content the caller received: the contents of the delta
\* events, concatenated in order.
RECURSIVE Visible(_)
Visible(events) ==
    IF events = <<>> THEN <<>>
    ELSE (IF Head(events).kind = "delta" THEN Head(events).content ELSE <<>>)
         \o Visible(Tail(events))

\* Indices of the events of one kind.
EventsOfKind(kind) == {i \in 1..Len(emitted) : emitted[i].kind = kind}

\* The text the upstream event of this step delivered.
Delivered == SubSeq(stream_rest, 1, Len(stream_rest) - Len(stream_rest'))

\* C4 as stated: once accumulating, the content of every later delta is
\* appended to the buffer and nothing of it is emitted as visible content.
C4_AsStated ==
    [][(spc = "stream" /\ followup_questions_started /\ stream_rest' # stream_rest)
          => /\ followup_content' = followup_content \o Delivered
             /\ emitted' = emitted]_vars

\* No "<" or ">" in s.
Plain(s) == \A i \in 1..Len(s) : s[i] = "q"

\* s is a run of "<<...>>" spans, each with a non-empty plain inner text.
RECURSIVE QuestionsOnly(_)
QuestionsOnly(s) ==
    IF s = <<>> THEN TRUE
    ELSE /\ MarkerAt(s, 1)
         /\ \E n \in 1..(Len(s) - 4) :
               /\ Plain(SubSeq(s, 3, 2 + n))
               /\ CloseAt(s, 3 + n)
               /\ QuestionsOnly(From(s, 5 + n))

\* A response with well-formed follow-up questions: plain text, then one or
\* more "<<...>>" spans.
WellFormed(s) ==
    \E n \in 0..Len(s) :
        /\ Plain(SubSeq(s, 1, n))
        /\ n < Len(s)
        /\ QuestionsOnly(From(s, n + 1))

\* C5 as stated: for a well-formed response and follow-ups requested, however
\* the response is cut into deltas, the streamed visible content equals the
\* visible content of the non-streaming path.
C5_AsStated ==
    (spc = "done" /\ overrides.suggest_followup_questions /\ WellFormed(completion))
        => Visible(emitted) = extract_followup_questions(completion)[1]

\* C6 as stated: with follow-ups requested, the visible content emitted so
\* far never contains "<<", however the response is cut into deltas.
C6_AsStated ==
    overrides.suggest_followup_questions => ~HasMarker(Visible(emitted))

\* C17: an upstream event without choices emits nothing, leaves the streaming
\* state (flag, buffer, text still to come) as it was, and neither ends nor
\* fails the stream.
C17_EmptyChoicesSkipped ==
    [][(skipped' = skipped + 1)
          => /\ spc = "stream" /\ spc' = "stream"
             /\ emitted' = emitted
             /\ followup_questions_started' = followup_questions_started
             /\ followup_content' = followup_content
             /\ stream_rest' = stream_rest
             /\ failure' = failure]_vars

\* A stream that skipped an event without choices and went on to emit
\* content, buffer a question and end.
C17_Witness ==
    /\ skipped = 1
    /\ spc = "done"
    /\ followup_questions_started
    /\ Visible(emitted) # <<>>
    /\ emitted[Len(emitted)].kind = "followup"

\* C7: the first event is the one context event, so it precedes every delta
\* event; a follow-up event comes after every delta event and is the last
\* event of the stream.
C7_EventOrder ==
    /\ spc \in {"stream", "done"} => emitted # <<>>
    /\ emitted # <<>> => EventsOfKind("context") = {1}
    /\ \A i \in EventsOfKind("followup") : i = Len(emitted) /\ spc = "done"
    /\ \A i \in EventsOfKind("delta") :
          /\ \A c \in EventsOfKind("context") : c < i
          /\ \A f \in EventsOfKind("followup") : i < f

\* A finished stream with content events between the context event and the
\* follow-up event.
C7_Witness ==
    /\ spc = "done"
    /\ Len(emitted) >= 4
    /\ emitted[Len(emitted)].kind = "followup"
    /\ emitted[2].kind = "delta"

\* C8: the stream yields a follow-up event only at its end, exactly one iff
\* the buffer is non-empty; that event carries the questions extracted from
\* the buffer and no content.
C8_FinalEvent ==
    /\ spc # "done" => EventsOfKind("followup") = {}
    /\ spc = "done" =>
          IF followup_content # <<>>
          THEN /\ Cardinality(EventsOfKind("followup")) = 1
               /\ emitted[Len(emitted)] =
                     [kind |-> "followup", has_content |-> FALSE, content |-> <<>>,
                      followup_questions |-> re_findall(followup_content)]
          ELSE EventsOfKind("followup") = {}

\* A finished stream whose buffer held a question.
C8_Witness ==
    /\ spc = "done"
    /\ followup_content # <<>>
    /\ emitted[Len(emitted)].kind = "followup"
    /\ emitted[Len(emitted)].followup_questions # <<>>


\* The step takes an upstream event with choices: a delta with text, or one
\* without.
PulledWithChoices ==
    \/ stream_rest' # stream_rest
    \/ quiet' = quiet + 1 /\ skipped' = skipped

\* The number of characters the upstream stream has delivered.
DeliveredSoFar == Len(completion) - Len(stream_rest)

\* The step delivers the k characters after position pos of the scenario,
\* with follow-up questions requested.
ScenarioDelta(pos, k) ==
    /\ completion = StreamScenario
    /\ overrides.suggest_followup_questions
    /\ DeliveredSoFar = pos
    /\ Len(stream_rest) - Len(stream_rest') = k

HereEvent == DeltaEvent(TRUE, <<"H", "e", "r", "e">>)

IsEvent == DeltaEvent(TRUE, <<" ", "i", "s", " ">>)

\* C21: with follow-ups requested and no marker seen so far, a delta that
\* contains "<<" gives the caller the text before its first "<<" as one
\* content event, or no event when that text is empty, and the text from
\* "<<" on goes to the buffer.  The deltas "Here", " is <<", "Q1?>>" give the
\* content "Here", then " is ", and at the end one event with the follow-up
\* questions ["Q1?"] and no content.
C21_MarkerDeltaSplit ==
    [][/\ (/\ spc = "stream"
           /\ overrides.suggest_followup_questions
           /\ ~followup_questions_started
           /\ stream_rest' # stream_rest
           /\ HasMarker(Delivered))
          => \E n \in 0..Len(Delivered) :
                 LET v == SubSeq(Delivered, 1, n)
                 IN  /\ IsTextBeforeFirstMarker(v, Delivered)
                     /\ emitted' = IF v = <<>> THEN emitted
                                   ELSE Append(emitted, DeltaEvent(TRUE, v))
                     /\ followup_content' = From(Delivered, n + 1)
                     /\ followup_questions_started'
       /\ (ScenarioDelta(0, 4) /\ emitted = <<ContextEvent>>)
          => emitted' = <<ContextEvent, HereEvent>>
       /\ (ScenarioDelta(4, 6) /\ emitted = <<ContextEvent, HereEvent>>)
          => /\ emitted' = <<ContextEvent, HereEvent, IsEvent>>
             /\ followup_content' = <<"<", "<">>
       /\ (/\ ScenarioDelta(10, 5)
           /\ emitted = <<ContextEvent, HereEvent, IsEvent>>
           /\ followup_content = <<"<", "<">>)
          => /\ emitted' = emitted
             /\ followup_content' = <<"<", "<", "Q", "1", "?", ">", ">">>
       /\ (/\ ScenarioDelta(15, 0)
           /\ spc = "stream" /\ spc' = "done"
           /\ emitted = <<ContextEvent, HereEvent, IsEvent>>)
          => emitted' = <<ContextEvent, HereEvent, IsEvent,
                          FollowupEvent(<<(<<"Q", "1", "?">>)>>)>>]_vars

\* The scenario has ended: "Here", " is " and the follow-up event.
C21_Witness ==
    /\ completion = StreamScenario
    /\ overrides.suggest_followup_questions
    /\ spc = "done"
    /\ emitted = <<ContextEvent, HereEvent, IsEvent,
                   FollowupEvent(<<(<<"Q", "1", "?">>)>>)>>

\* A delta that began with the marker was taken in and gave no event.
C21_WitnessEmptyPrefix ==
    /\ overrides.suggest_followup_questions
    /\ followup_questions_started
    /\ MarkerAt(completion, 1)
    /\ emitted = <<ContextEvent>>
    /\ followup_content # <<>>

\* C22: without the request for follow-up questions the flag stays false,
\* the buffer stays empty, no follow-up event is yielded, and every upstream
\* event with choices is yielded as it came, one event for one, in order,
\* also when its content holds "<<".
C22_NoFollowupsPassThrough ==
    /\ [](~overrides.suggest_followup_questions =>
             /\ ~followup_questions_started
             /\ followup_content = <<>>
             /\ EventsOfKind("followup") = {}
             /\ Visible(emitted) = SubSeq(completion, 1, DeliveredSoFar)
             /\ Cardinality(EventsOfKind("delta")) <= DeliveredSoFar + quiet - skipped)
    /\ [][(~overrides.suggest_followup_questions /\ spc = "stream" /\ PulledWithChoices)
             => \E has_content \in BOOLEAN :
                    /\ Delivered # <<>> => has_content
                    /\ emitted' = Append(emitted, DeltaEvent(has_content, Delivered))]_vars

\* A finished stream, follow-ups not requested, that passed on a delta with
\* "<<" in it and an event without text.
C22_Witness ==
    /\ ~overrides.suggest_followup_questions
    /\ spc = "done"
    /\ quiet - skipped >= 1
    /\ \E i \in EventsOfKind("delta") : HasMarker(emitted[i].content)
    /\ \E i \in EventsOfKind("delta") : emitted[i].content = <<>>
    /\ Visible(emitted) = completion

\* C25: the completion call of the streamed answer is started only after the
\* context event has been yielded and the caller has asked for the next
\* event; nothing is pulled from upstream before that; the generator never
\* yields more than the caller asked for, and it pulls the next upstream
\* event only while a request of the caller is outstanding, one event a
\* step, after the event before it has been yielded or withheld.
C25_CallStartedAfterContextConsumed ==
    /\ [](stream_handle # "unopened" =>
             /\ emitted # <<>>
             /\ emitted[1] = ContextEvent
             /\ asked >= 2)
    /\ []((DeliveredSoFar > 0 \/ quiet > 0) =>
             (asked >= 2 /\ stream_handle # "unopened"))
    /\ [](Len(emitted) <= asked)
    /\ [][(PulledWithChoices \/ skipped' # skipped)
             => /\ Len(emitted) < asked
                /\ stream_handle = "open"
                /\ Len(emitted') <= asked
                /\ quiet' - quiet + (Len(stream_rest) - Len(stream_rest')) >= 1
                /\ quiet' - quiet <= 1]_vars

\* The caller took the context event and asked again; the call has been
\* started and nothing has been pulled yet.
C25_Witness ==
    /\ stream_handle = "open"
    /\ emitted = <<ContextEvent>>
    /\ asked = 2
    /\ stream_rest = completion
    /\ completion # <<>>
    /\ quiet = 0

\* The generator is suspended at the yield of a content event, with text
\* still to come upstream.
C25_WitnessSuspended ==
    /\ stream_handle = "open"
    /\ Len(emitted) = 3
    /\ asked = 3
    /\ stream_rest # <<>>

\* C26: once set, followup_questions_started stays set and the buffer only
\* grows; from then on an upstream event whose content has no "<<" (one
\* without text included) is withheld and its content goes to the buffer;
\* and no upstream event makes the generator yield more than one event.
C26_AccumulatingIsAbsorbing ==
    /\ [](followup_questions_started =>
             /\ overrides.suggest_followup_questions
             /\ MarkerAt(followup_content, 1))
    /\ [][/\ followup_questions_started => followup_questions_started'
          /\ Len(followup_content) <= Len(followup_content')
          /\ followup_content = SubSeq(followup_content', 1, Len(followup_content))
          /\ (followup_questions_started /\ PulledWithChoices /\ ~HasMarker(Delivered))
                => /\ emitted' = emitted
                   /\ followup_content' = followup_content \o Delivered
          /\ (PulledWithChoices \/ skipped' # skipped)
                => Len(emitted') <= Len(emitted) + 1]_vars

\* A finished stream whose response began with the marker: the events
\* without text that came after it were withheld, and the caller got the
\* context event and the follow-up event only.
C26_Witness ==
    /\ spc = "done"
    /\ followup_questions_started
    /\ quiet - skipped >= 1
    /\ followup_content = completion
    /\ Len(completion) >= 4
    /\ Len(emitted) = 2
    /\ emitted[2].kind = "followup"

\* ---------------------------------------------------------------------
\* get_messages_from_history
\* ---------------------------------------------------------------------
\* Lines 122-136: builder, few-shots, the new user turn, the cost of the
\* mandatory messages, and the reversed history without its last entry.
BuildMandatory ==
    /\ apc = "build"
    /\ LET built == insert_message(
                        InsertShots(MessageBuilder(SystemPrompt), Reverse(few_shots)),
                        USER, user_content, append_index)
       IN  /\ messages' = built
           /\ total_token_count' = SumTokens(built)
    /\ newest_to_oldest' = Reverse(AllButLast(history))
    /\ apc' = "loop"
    /\ UNCHANGED <<few_shots, history, user_content, max_tokens, truncated>>

\* A budget test that forgets the cost of the candidate message.
OverBudgetIgnoringCandidate(total, potential, ceiling) == total > ceiling

\* The test of line 139.
OverBudget(total, potential, ceiling) == (total + potential) > ceiling

\* A loop that skips a turn that does not fit and goes on to the older ones
\* (continue where the code has break).
HistoryStepContinue ==
    /\ apc = "loop"
    /\ newest_to_oldest # <<>>
    /\ LET message == Head(newest_to_oldest)
           potential_message_count == count_tokens_for_message(message)
       IN  IF (total_token_count + potential_message_count) > max_tokens
           THEN /\ truncated' = TRUE
                /\ newest_to_oldest' = Tail(newest_to_oldest)
                /\ UNCHANGED <<messages, total_token_count, apc>>
           ELSE /\ messages' = insert_message(messages, message.role,
                                              message.content, append_index)
                /\ total_token_count' = total_token_count + potential_message_count
                /\ newest_to_oldest' = Tail(newest_to_oldest)
                /\ UNCHANGED <<truncated, apc>>
    /\ UNCHANGED <<few_shots, history, user_content, max_tokens>>

\* Lines 137-143: one iteration of the loop over newest_to_oldest.  The token
\* counter is called first; its error leaves the function at once.
HistoryStep ==
    /\ apc = "loop"
    /\ newest_to_oldest # <<>>
    /\ LET message == Head(newest_to_oldest)
           potential_message_count == count_tokens_for_message(message)
       IN  IF ~Encodable(message)
           THEN /\ apc' = "raised"
                /\ UNCHANGED <<messages, total_token_count, newest_to_oldest,
                               truncated>>
           ELSE IF OverBudget(total_token_count, potential_message_count, max_tokens)
           THEN /\ truncated' = TRUE
                /\ apc' = "return"
                /\ UNCHANGED <<messages, total_token_count, newest_to_oldest>>
           ELSE /\ messages' = insert_message(messages, message.role,
                                              message.content, append_index)
                /\ total_token_count' = total_token_count + potential_message_count
                /\ newest_to_oldest' = Tail(newest_to_oldest)
                /\ UNCHANGED <<truncated, apc>>
    /\ UNCHANGED <<few_shots, history, user_content, max_tokens>>

\* Line 144: the loop ran out of history.
HistoryExhausted ==
    /\ apc = "loop"
    /\ newest_to_oldest = <<>>
    /\ apc' = "return"
    /\ UNCHANGED <<few_shots, history, user_content, max_tokens, messages,
                   total_token_count, newest_to_oldest, truncated>>

otherThanAsm == <<requestVars, replyVars, streamVars, pipeVars>>

AsmNext ==
    \/ BuildMandatory /\ UNCHANGED otherThanAsm
    \/ HistoryStep /\ UNCHANGED otherThanAsm
    \/ HistoryExhausted /\ UNCHANGED otherThanAsm


\* ---------------------------------------------------------------------
\* Properties of get_messages_from_history
\* ---------------------------------------------------------------------
SystemMsg == Msg(SYSTEM, SystemPrompt)
NewUserMsg == Msg(USER, user_content)

\* Cost of the system prompt and the new user turn alone.
SystemAndUserCost ==
    count_tokens_for_message(SystemMsg) + count_tokens_for_message(NewUserMsg)

\* Cost of everything the assembler always includes.
MandatoryCost == SystemAndUserCost + SumTokens(few_shots)

\* Number of history turns in the returned list.
Kept == Len(messages) - Len(few_shots) - 2

\* The candidates of the loop, newest first.
Candidates == Reverse(AllButLast(history))

\* Cost of the i newest candidates.
CumCost(i) == SumTokens(SubSeq(Candidates, 1, i))

\* C1 as stated: whenever the ceiling covers the system prompt and the new
\* user turn, the returned list costs at most the ceiling.
C1_AsStated ==
    (apc = "return" /\ max_tokens >= SystemAndUserCost)
        => SumTokens(messages) <= max_tokens

\* C1 (amended): whenever the ceiling covers the system prompt, all few-shot
\* examples and the new user turn, the returned list costs at most the ceiling.
C1_CostWithinCeiling ==
    (apc = "return" /\ max_tokens >= MandatoryCost)
        => SumTokens(messages) <= max_tokens

\* A return with few-shots, a retained turn and a dropped one, under a
\* ceiling that covers the mandatory messages.
C1_Witness ==
    /\ apc = "return"
    /\ max_tokens >= MandatoryCost
    /\ few_shots # <<>>
    /\ truncated
    /\ Kept >= 1

\* C2: for every ceiling the returned list is the system prompt, the few-shot
\* examples in their order, a block of the newest turns of history[:-1] in
\* chronological order, and the new user turn last.
C2_Ordering ==
    apc = "return" =>
        \E k \in 0..Len(AllButLast(history)) :
            messages = <<SystemMsg>> \o few_shots
                       \o SubSeq(history, Len(history) - k, Len(history) - 1)
                       \o <<NewUserMsg>>

\* A return with both few-shots and two different retained turns.
C2_Witness ==
    /\ apc = "return"
    /\ few_shots = ShotList
    /\ Kept >= 2
    /\ messages[append_index + 1] # messages[append_index + 2]
    /\ history[Len(history)] # history[Len(history) - 1]

\* A return under a ceiling smaller than the mandatory messages.
C2_WitnessSmallCeiling ==
    /\ apc = "return"
    /\ max_tokens < MandatoryCost
    /\ few_shots = ShotList
    /\ Len(history) >= 2

\* C3: walking newest to oldest, a turn is retained iff every newer turn was
\* retained and the running cost plus its own cost fits the ceiling; the
\* retained turns are exactly the Kept newest candidates.
C3_SingleCutoff ==
    apc = "return" =>
        /\ Kept \in 0..Len(Candidates)
        /\ SubSeq(messages, append_index + 1, append_index + Kept)
               = Reverse(SubSeq(Candidates, 1, Kept))
        /\ \A i \in 1..Len(Candidates) :
               (i <= Kept) <=> (/\ i - 1 <= Kept
                                /\ MandatoryCost + CumCost(i - 1)
                                     + count_tokens_for_message(Candidates[i])
                                     <= max_tokens)

\* A return where a turn was dropped and an older turn would have fit.
C3_Witness ==
    /\ apc = "return"
    /\ truncated
    /\ Kept >= 1
    /\ \E i \in (Kept + 2)..Len(Candidates) :
           total_token_count + count_tokens_for_message(Candidates[i]) <= max_tokens

\* ---------------------------------------------------------------------
\* get_search_query
\* ---------------------------------------------------------------------
\* An optional text: None, or a string (which may be empty).
None == [some |-> FALSE, text |-> <<>>]

Some(t) == [some |-> TRUE, text |-> t]

\* ChatApproach.NO_RESPONSE
NO_RESPONSE == <<"0">>

\* Characters of the texts of a query-distillation response.
QueryChars == {"0", " ", "x"}

QueryStringsUpTo(n) == UNION {[1..k -> QueryChars] : k \in 0..n}

\* str.strip(): leading and trailing whitespace removed.
RECURSIVE StripLeft(_)
StripLeft(t) ==
    IF t # <<>> /\ Head(t) = " " THEN StripLeft(Tail(t)) ELSE t

Strip(t) == Reverse(StripLeft(Reverse(StripLeft(t))))

\* The argument payload of a tool call: text that json.loads rejects, or an
\* object with or without the key search_query.
Unparseable == [parseable |-> FALSE, has_query |-> FALSE, search_query |-> <<>>]

EmptyObject == [parseable |-> TRUE, has_query |-> FALSE, search_query |-> <<>>]

QueryPayload(q) == [parseable |-> TRUE, has_query |-> TRUE, search_query |-> q]

SearchQueries == {<<"0">>, <<"x">>, <<"x", "x">>}

ArgPayloads == {Unparseable, EmptyObject} \cup {QueryPayload(q) : q \in SearchQueries}

ToolCall(type, name, arguments) ==
    [type |-> type, name |-> name, arguments |-> arguments]

ToolCalls ==
    {ToolCall("function", "search_sources", a) : a \in ArgPayloads}
    \cup {ToolCall("function", "other_function", EmptyObject),
          ToolCall("code_interpreter", "search_sources", QueryPayload(<<"x">>))}

ToolCallLists == UNION {[1..n -> ToolCalls] : n \in 0..MaxTools}

Contents == {None} \cup {Some(t) : t \in QueryStringsUpTo(MaxText)}

UserQueries == {<<"x">>, <<"0">>, <<"x", " ", "0">>}

\* The outcome of a call: a returned value, or a raised error.
Returned(v) == [raised |-> FALSE, value |-> v]

Raised == [raised |-> TRUE, value |-> <<>>]

\* arg.get("search_query", self.NO_RESPONSE)
ArgGet(arguments) ==
    IF arguments.has_query THEN arguments.search_query ELSE NO_RESPONSE

\* A scan that stops at the first matching tool call and falls back to the
\* user query when that one carries the sentinel.
RECURSIVE ScanToolsStopAtFirstMatch(_, _)
ScanToolsStopAtFirstMatch(tools, user_query) ==
    IF tools = <<>> THEN Returned(user_query)
    ELSE LET tool == Head(tools)
         IN  IF tool.type # "function"
             THEN ScanToolsStopAtFirstMatch(Tail(tools), user_query)
             ELSE IF tool.name = "search_sources"
             THEN IF ~tool.arguments.parseable
                  THEN Raised
                  ELSE IF ArgGet(tool.arguments) # NO_RESPONSE
                       THEN Returned(ArgGet(tool.arguments))
                       ELSE Returned(user_query)
             ELSE ScanToolsStopAtFirstMatch(Tail(tools), user_query)

\* A scan that returns the search_query of the first matching tool call
\* without comparing it to the sentinel.
RECURSIVE ScanToolsReturningSentinel(_, _)
ScanToolsReturningSentinel(tools, user_query) ==
    IF tools = <<>> THEN Returned(user_query)
    ELSE LET tool == Head(tools)
         IN  IF tool.type # "function"
             THEN ScanToolsReturningSentinel(Tail(tools), user_query)
             ELSE IF tool.name = "search_sources"
             THEN IF ~tool.arguments.parseable
                  THEN Raised
                  ELSE Returned(ArgGet(tool.arguments))
             ELSE ScanToolsReturningSentinel(Tail(tools), user_query)

\* Lines 96-104 and the fall through to line 108: the loop over the tool
\* calls; json.loads raises on a payload it cannot parse.
RECURSIVE ScanTools(_, _)
ScanTools(tools, user_query) ==
    IF tools = <<>> THEN Returned(user_query)
    ELSE LET tool == Head(tools)
         IN  IF tool.type # "function"
             THEN ScanTools(Tail(tools), user_query)
             ELSE IF tool.name = "search_sources"
             THEN IF ~tool.arguments.parseable
                  THEN Raised
                  ELSE IF ArgGet(tool.arguments) # NO_RESPONSE
                       THEN Returned(ArgGet(tool.arguments))
                       ELSE ScanTools(Tail(tools), user_query)
             ELSE ScanTools(Tail(tools), user_query)

\* Lines 92-108.  An empty list of tool calls and an absent one are both
\* falsy, and so are an empty content and an absent one.
get_search_query(completion_message, user_query) ==
    IF completion_message.tool_calls # <<>>
    THEN ScanTools(completion_message.tool_calls, user_query)
    ELSE IF completion_message.content.some /\ completion_message.content.text # <<>>
    THEN IF Strip(completion_message.content.text) # NO_RESPONSE
         THEN Returned(completion_message.content.text)
         ELSE Returned(user_query)
    ELSE Returned(user_query)

\* A handler that answers a malformed payload with the user's own query.
GetSearchQueryOrUserQuery ==
    /\ ppc = "get_search_query"
    /\ LET result == get_search_query(chat_completion, original_user_query)
       IN  query_text' = Some(IF result.raised THEN original_user_query
                                               ELSE result.value)
    /\ ppc' = "embed"
    /\ UNCHANGED <<approach, stream, retrieval, original_user_query, token_limit,
                   chat_completion, vectors, calls, failure, outcome>>

\* Line 122 of run_until_final_call: the search query is taken from the
\* response; an error of get_search_query leaves the request.
GetSearchQuery ==
    /\ ppc = "get_search_query"
    /\ LET result == get_search_query(chat_completion, original_user_query)
       IN  IF result.raised
           THEN /\ failure' = "MalformedFunctionArguments"
                /\ ppc' = "failed"
                /\ UNCHANGED query_text
           ELSE /\ query_text' = Some(result.value)
                /\ ppc' = "embed"
                /\ UNCHANGED failure
    /\ UNCHANGED <<approach, stream, retrieval, original_user_query, token_limit,
                   chat_completion, vectors, calls, outcome>>

otherThanPipe == <<asmVars, requestVars, replyVars, streamVars>>

QueryNext == GetSearchQuery /\ UNCHANGED otherThanPipe

\* ---------------------------------------------------------------------
\* Properties of get_search_query
\* ---------------------------------------------------------------------
\* The tool calls of the response that match the search function.
Matching ==
    {i \in 1..Len(chat_completion.tool_calls) :
        /\ chat_completion.tool_calls[i].type = "function"
        /\ chat_completion.tool_calls[i].name = "search_sources"}

\* The matching tool calls that carry a search_query other than the sentinel.
MatchingWithQuery ==
    {i \in Matching :
        /\ chat_completion.tool_calls[i].arguments.parseable
        /\ ArgGet(chat_completion.tool_calls[i].arguments) # NO_RESPONSE}

\* The matching tool calls that carry the sentinel.
MatchingWithSentinel ==
    {i \in Matching :
        /\ chat_completion.tool_calls[i].arguments.parseable
        /\ chat_completion.tool_calls[i].arguments.has_query
        /\ chat_completion.tool_calls[i].arguments.search_query = NO_RESPONSE}

Min(S) == CHOOSE i \in S : \A j \in S : i <= j

\* The response has plain-text content.
HasText == chat_completion.content.some /\ chat_completion.content.text # <<>>

\* get_search_query has returned.
QueryReturned == ppc = "embed" /\ approach = "chat_vision"

\* C12 as stated: without a tool call that matches search_sources, a response
\* with plain text gives that text, or the user query when the trimmed text is
\* the sentinel; with neither a matching tool call nor text the user query.
C12_AsStated ==
    (QueryReturned /\ Matching = {}) =>
        query_text.text =
            IF HasText /\ Strip(chat_completion.content.text) # NO_RESPONSE
            THEN chat_completion.content.text
            ELSE original_user_query

C13_WitnessFallback ==
    /\ QueryReturned
    /\ MatchingWithSentinel # {}
    /\ MatchingWithQuery = {}
    /\ HasText
    /\ Len(chat_completion.tool_calls) = 2

\* C27: whatever tool calls and text the response carries, get_search_query
\* returns exactly the sentinel "0" only when the user query it was given is
\* "0" itself.
C27_SentinelNeverReturned ==
    QueryReturned =>
        (query_text.text = NO_RESPONSE => original_user_query = NO_RESPONSE)

\* The user asked "0", the response carried the sentinel both in a matching
\* tool call and as text, and "0" came back as the user query.
C27_Witness ==
    /\ QueryReturned
    /\ original_user_query = NO_RESPONSE
    /\ query_text.text = NO_RESPONSE
    /\ MatchingWithSentinel # {}
    /\ HasText

\* A response whose text is the sentinel followed by a space, with a user
\* query other than "0": the user query came back, not the text.
C27_WitnessPaddedSentinel ==
    /\ QueryReturned
    /\ chat_completion.tool_calls = <<>>
    /\ chat_completion.content = Some(<<"0", " ">>)
    /\ original_user_query = <<"x">>
    /\ query_text.text = <<"x">>

\* ---------------------------------------------------------------------
\* The request: run, run_until_final_call and RetrieveThenReadApproach.run
\* ---------------------------------------------------------------------
\* len("Generate search query for: ")
QueryRequestPrefixLen == 27

\* response_token_limit of run_until_final_call
response_token_limit == 1024

\* get_token_limit(model) of the models the tests name
TokenLimits == {4000, 8100}

\* len(" ".join(s)) for a string s of n characters
JoinedLen(n) == IF n = 0 THEN 0 ELSE 2 * n - 1

\* overrides.get("retrieval_mode"); "unset" stands for an absent key.
RetrievalModes == {"text", "vectors", "hybrid", "unset"}

\* overrides.get("vector_fields", ["embedding"])
VectorFieldChoices ==
    {<<"embedding">>, <<"imageEmbedding">>, <<"embedding", "imageEmbedding">>,
     <<"imageEmbedding", "embedding">>, <<>>}

\* Earlier turns of a conversation; the newest entry is the user's question.
EarlierTurns == {Msg(USER, "book"), Msg(ASSISTANT, "a"), Msg(USER, "map")}

RequestHistories ==
    {h \o <<Msg(USER, "q")>> : h \in UNION {[1..n -> EarlierTurns] : n \in 0..MaxTurns}}

SearchTool(a) == ToolCall("function", "search_sources", a)

\* Responses of the query-distillation call.
DistillReplies ==
    {[tool_calls |-> <<>>, content |-> Some(<<"x", "x">>)],
     [tool_calls |-> <<>>, content |-> Some(<<"0">>)],
     [tool_calls |-> <<>>, content |-> None],
     [tool_calls |-> <<SearchTool(QueryPayload(<<"x">>))>>, content |-> None],
     [tool_calls |-> <<SearchTool(Unparseable)>>, content |-> None],
     [tool_calls |-> <<SearchTool(QueryPayload(<<"x">>)), SearchTool(Unparseable)>>,
      content |-> None],
     [tool_calls |-> <<SearchTool(QueryPayload(NO_RESPONSE)), SearchTool(Unparseable)>>,
      content |-> None],
     [tool_calls |-> <<SearchTool(EmptyObject), SearchTool(Unparseable)>>,
      content |-> Some(<<"x">>)],
     [tool_calls |-> <<ToolCall("function", "other_function", EmptyObject),
                       SearchTool(QueryPayload(NO_RESPONSE))>>,
      content |-> Some(<<"x">>)]}

\* Calls to the collaborators, as the log "calls" records them.
CompletionCall(purpose, should_stream) ==
    [op |-> purpose, field |-> "", text |-> None, vectors |-> <<>>,
     stream |-> should_stream]

EmbeddingCall(field, t) ==
    [op |-> IF field = "embedding" THEN "compute_text_embedding"
                                   ELSE "compute_image_embedding",
     field |-> field, text |-> t, vectors |-> <<>>, stream |-> FALSE]

SearchCall(t, vs) ==
    [op |-> "search", field |-> "", text |-> t, vectors |-> vs, stream |-> FALSE]

\* The vector query an embedding call returns.
VectorQuery(field, t) == [field |-> field, of |-> t]

\* A retrieval mode test that keeps the text query in every mode.
has_text_in_every_mode(mode) == TRUE

\* has_text = overrides.get("retrieval_mode") in ["text", "hybrid", None]
has_text(mode) == mode \in {"text", "hybrid", "unset"}

\* has_vector = overrides.get("retrieval_mode") in ["vectors", "hybrid", None]
has_vector(mode) == mode \in {"vectors", "hybrid", "unset"}

\* ChatApproach.run, lines 230-232: stream is False awaits
\* run_without_streaming, anything else returns the generator of
\* run_with_streaming; either one starts with run_until_final_call.
Run ==
    /\ ppc = "run"
    /\ approach = "chat_vision"
    /\ outcome' = IF stream = FALSE THEN "none" ELSE "event_stream"
    /\ ppc' = "run_until_final_call"
    /\ UNCHANGED <<approach, stream, retrieval, original_user_query, token_limit,
                   chat_completion, query_text, vectors, calls, failure>>

\* Lines 100-112: the first call of get_messages_from_history.
AssembleQuery ==
    /\ ppc = "run_until_final_call"
    /\ few_shots' = ShotList
    /\ user_content' = "request"
    /\ max_tokens' = token_limit
                     - JoinedLen(QueryRequestPrefixLen + Len(original_user_query))
    /\ messages' = <<>>
    /\ total_token_count' = 0
    /\ newest_to_oldest' = <<>>
    /\ truncated' = FALSE
    /\ apc' = "build"
    /\ ppc' = "assemble_query"
    /\ UNCHANGED <<history, approach, stream, retrieval, original_user_query,
                   token_limit, chat_completion, query_text, vectors, calls,
                   failure, outcome>>

\* An error handler that goes on with the messages assembled so far.
AssemblyRaisedSwallowed ==
    /\ ppc \in {"assemble_query", "assemble_answer"}
    /\ apc = "raised"
    /\ apc' = "return"
    /\ UNCHANGED <<few_shots, history, user_content, max_tokens, messages,
                   total_token_count, newest_to_oldest, truncated>>
    /\ UNCHANGED pipeVars

\* get_messages_from_history raised: neither it nor run_until_final_call nor
\* the run methods have a handler, so the error leaves the request.
AssemblyRaised ==
    /\ ppc \in {"assemble_query", "assemble_answer"}
    /\ apc = "raised"
    /\ failure' = "UnsupportedContentType"
    /\ ppc' = "failed"
    /\ UNCHANGED asmVars
    /\ UNCHANGED <<approach, stream, retrieval, original_user_query, token_limit,
                   chat_completion, query_text, vectors, calls, outcome>>

\* Lines 114-120: the query-distillation completion call and its response.
Distill ==
    /\ ppc = "assemble_query"
    /\ apc = "return"
    /\ calls' = Append(calls, CompletionCall("distill", FALSE))
    /\ chat_completion' \in DistillReplies
    /\ ppc' = "get_search_query"
    /\ UNCHANGED asmVars
    /\ UNCHANGED <<approach, stream, retrieval, original_user_query, token_limit,
                   query_text, vectors, failure, outcome>>

\* Lines 127-135: one pass of the loop over vector_fields.
EmbedField ==
    /\ ppc = "embed"
    /\ approach = "chat_vision"
    /\ has_vector(retrieval.retrieval_mode)
    /\ Len(vectors) < Len(retrieval.vector_fields)
    /\ LET field == retrieval.vector_fields[Len(vectors) + 1]
       IN  /\ calls' = Append(calls, EmbeddingCall(field, query_text))
           /\ vectors' = Append(vectors, VectorQuery(field, query_text.text))
    /\ UNCHANGED <<approach, stream, retrieval, original_user_query, token_limit,
                   chat_completion, query_text, failure, outcome, ppc>>

\* A search that does not wait for the embeddings still to be computed.
SearchBeforeEmbeddings ==
    /\ ppc = "embed"
    /\ approach = "chat_vision"
    /\ LET text == IF has_text(retrieval.retrieval_mode) THEN query_text ELSE None
       IN  /\ query_text' = text
           /\ calls' = Append(calls, SearchCall(text, vectors))
    /\ ppc' = "searched"
    /\ UNCHANGED <<approach, stream, retrieval, original_user_query, token_limit,
                   chat_completion, vectors, failure, outcome>>

\* Lines 137-150: the loop is over (or was not entered); the text query is
\* dropped when the mode has no text, and search is awaited.
Search ==
    /\ ppc = "embed"
    /\ approach = "chat_vision"
    /\ \/ ~has_vector(retrieval.retrieval_mode)
       \/ Len(vectors) = Len(retrieval.vector_fields)
    /\ LET text == IF has_text(retrieval.retrieval_mode) THEN query_text ELSE None
       IN  /\ query_text' = text
           /\ calls' = Append(calls, SearchCall(text, vectors))
    /\ ppc' = "searched"
    /\ UNCHANGED <<approach, stream, retrieval, original_user_query, token_limit,
                   chat_completion, vectors, failure, outcome>>

\* Lines 162-183: the second call of get_messages_from_history.
AssembleAnswer ==
    /\ ppc = "searched"
    /\ approach = "chat_vision"
    /\ few_shots' = <<>>
    /\ user_content' = "sources"
    /\ max_tokens' = token_limit - response_token_limit
    /\ messages' = <<>>
    /\ total_token_count' = 0
    /\ newest_to_oldest' = <<>>
    /\ truncated' = FALSE
    /\ apc' = "build"
    /\ ppc' = "assemble_answer"
    /\ UNCHANGED <<history, approach, stream, retrieval, original_user_query,
                   token_limit, chat_completion, query_text, vectors, calls,
                   failure, outcome>>

\* Lines 229-236 with the await of the caller (line 155, or line 191 after
\* the context event): run_without_streaming passes should_stream=False,
\* run_with_streaming should_stream=True.
AnswerCall ==
    /\ ppc = "assemble_answer"
    /\ apc = "return"
    /\ calls' = Append(calls, CompletionCall("answer", outcome = "event_stream"))
    /\ ppc' = "answer"
    /\ UNCHANGED asmVars
    /\ UNCHANGED <<approach, stream, retrieval, original_user_query, token_limit,
                   chat_completion, query_text, vectors, failure, outcome>>

\* The answer reaches the caller: the completed response that
\* run_without_streaming returns, or the events of the generator it holds.
Deliver ==
    /\ ppc = "answer"
    /\ approach = "chat_vision"
    /\ outcome' = IF outcome = "event_stream" THEN "event_stream" ELSE "response"
    /\ ppc' = "done"
    /\ UNCHANGED <<approach, stream, retrieval, original_user_query, token_limit,
                   chat_completion, query_text, vectors, calls, failure>>

\* RetrieveThenReadApproach.run, lines 91-93: one text embedding of q.
RtrEmbed ==
    /\ ppc = "run"
    /\ approach = "retrieve_then_read"
    /\ IF has_vector(retrieval.retrieval_mode)
       THEN /\ calls' = Append(calls, EmbeddingCall("embedding",
                                                    Some(original_user_query)))
            /\ vectors' = Append(vectors, VectorQuery("embedding",
                                                      original_user_query))
       ELSE UNCHANGED <<calls, vectors>>
    /\ ppc' = "embed"
    /\ UNCHANGED <<approach, stream, retrieval, original_user_query, token_limit,
                   chat_completion, query_text, failure, outcome>>

\* RetrieveThenReadApproach.run, lines 96-107.
RtrSearch ==
    /\ ppc = "embed"
    /\ approach = "retrieve_then_read"
    /\ LET text == IF has_text(retrieval.retrieval_mode)
                   THEN Some(original_user_query) ELSE None
       IN  /\ query_text' = text
           /\ calls' = Append(calls, SearchCall(text, vectors))
    /\ ppc' = "searched"
    /\ UNCHANGED <<approach, stream, retrieval, original_user_query, token_limit,
                   chat_completion, vectors, failure, outcome>>

\* q + "\n" + "Sources:\n " + content for a search that returned n documents
SourcesContent(n) ==
    IF n = 0 THEN "question, no source"
    ELSE IF n = 1 THEN "question, one source"
    ELSE "question, sources"

\* A prompt built by appending each message to the end of the list.
RtrAnswerAppending ==
    /\ ppc = "searched"
    /\ approach = "retrieve_then_read"
    /\ \E n \in 0..MaxSources :
           messages' = insert_message(
                           insert_message(
                               insert_message(MessageBuilder(SystemPrompt),
                                              USER, SourcesContent(n), 1),
                               ASSISTANT, "sample answer", 2),
                           USER, "sample question", 3)
    /\ calls' = Append(calls, CompletionCall("answer", FALSE))
    /\ ppc' = "answer"
    /\ UNCHANGED <<few_shots, history, user_content, max_tokens,
                   total_token_count, newest_to_oldest, truncated, apc>>
    /\ UNCHANGED <<approach, stream, retrieval, original_user_query, token_limit,
                   chat_completion, query_text, vectors, failure, outcome>>

\* RetrieveThenReadApproach.run, lines 109-134: the search returned n
\* documents; the user message with the sources, self.answer and
\* self.question are each inserted at index 1, and the completion call, which
\* passes no stream argument, is awaited.
RtrAnswer ==
    /\ ppc = "searched"
    /\ approach = "retrieve_then_read"
    /\ \E n \in 0..MaxSources :
           messages' = insert_message(
                           insert_message(
                               insert_message(MessageBuilder(SystemPrompt),
                                              USER, SourcesContent(n), 1),
                               ASSISTANT, "sample answer", 1),
                           USER, "sample question", 1)
    /\ calls' = Append(calls, CompletionCall("answer", FALSE))
    /\ ppc' = "answer"
    /\ UNCHANGED <<few_shots, history, user_content, max_tokens,
                   total_token_count, newest_to_oldest, truncated, apc>>
    /\ UNCHANGED <<approach, stream, retrieval, original_user_query, token_limit,
                   chat_completion, query_text, vectors, failure, outcome>>

\* RetrieveThenReadApproach.run returns the completed response as a dict.
RtrReturn ==
    /\ ppc = "answer"
    /\ approach = "retrieve_then_read"
    /\ outcome' = "response"
    /\ ppc' = "done"
    /\ UNCHANGED <<approach, stream, retrieval, original_user_query, token_limit,
                   chat_completion, query_text, vectors, calls, failure>>

otherThanAsmAndPipe == <<requestVars, replyVars, streamVars>>

RequestNext ==
    \/ Run /\ UNCHANGED otherThanPipe
    \/ AssembleQuery /\ UNCHANGED otherThanAsmAndPipe
    \/ AsmNext
    \/ AssemblyRaised /\ UNCHANGED otherThanAsmAndPipe
    \/ Distill /\ UNCHANGED otherThanAsmAndPipe
    \/ QueryNext
    \/ EmbedField /\ UNCHANGED otherThanPipe
    \/ Search /\ UNCHANGED otherThanPipe
    \/ AssembleAnswer /\ UNCHANGED otherThanAsmAndPipe
    \/ AnswerCall /\ UNCHANGED otherThanAsmAndPipe
    \/ Deliver /\ UNCHANGED otherThanPipe
    \/ RtrEmbed /\ UNCHANGED otherThanPipe
    \/ RtrSearch /\ UNCHANGED otherThanPipe
    \/ RtrAnswer /\ UNCHANGED otherThanAsmAndPipe
    \/ RtrReturn /\ UNCHANGED otherThanPipe

\* ---------------------------------------------------------------------
\* Properties of the request
\* ---------------------------------------------------------------------
\* Positions of the log "calls" that hold a call of one of the given kinds.
CallsOf(ops) == {i \in 1..Len(calls) : calls[i].op \in ops}

EmbeddingOps == {"compute_text_embedding", "compute_image_embedding"}

\* get_search_query has run on the response of the distillation call.
Distilled ==
    /\ approach = "chat_vision"
    /\ ppc \notin {"run", "run_until_final_call", "assemble_query", "get_search_query"}
    /\ CallsOf({"distill"}) # {}

\* The error left the request after the distillation call and nothing but
\* that one call was made.
FailedInDistillation ==
    /\ failure = "MalformedFunctionArguments"
    /\ ppc = "failed"
    /\ calls = <<CompletionCall("distill", FALSE)>>
    /\ outcome \in {"none", "event_stream"}
    /\ outcome = "event_stream" <=> stream

\* The i-th tool call matches the search function and its payload does not parse.
MalformedAt(i) ==
    /\ i \in Matching
    /\ ~chat_completion.tool_calls[i].arguments.parseable

\* C14 as stated: whenever the response holds a matching search_sources tool
\* call whose payload does not parse, the request fails in distillation with
\* no retry and no later embedding, search or answer-completion call.
C14_AsStated ==
    (Distilled /\ \E i \in Matching : MalformedAt(i)) => FailedInDistillation

\* C14, amended: when the scan reaches a matching tool call whose payload
\* does not parse (every matching tool call before it parses and carries no
\* query other than the sentinel),
\* the request fails with that error after the one distillation call, which
\* is not retried, and makes no embedding, search or answer-completion
\* call; no other request fails with that error.
C14_MalformedPayloadFailsRequest ==
    LET reached == \E i \in Matching :
                       /\ MalformedAt(i)
                       /\ \A j \in Matching :
                              j < i => (~MalformedAt(j) /\ j \notin MatchingWithQuery)
    IN  /\ (Distilled /\ reached) => FailedInDistillation
        /\ failure = "MalformedFunctionArguments" => (reached /\ FailedInDistillation)

\* A request failed on a malformed payload that follows a sentinel payload.
C14_Witness ==
    /\ failure = "MalformedFunctionArguments"
    /\ ppc = "failed"
    /\ Len(chat_completion.tool_calls) = 2
    /\ 1 \in MatchingWithSentinel
    /\ MalformedAt(2)
    /\ stream

\* The vector queries the embedding calls of the request returned, in order.
RECURSIVE ComputedVectors(_)
ComputedVectors(log) ==
    IF log = <<>> THEN <<>>
    ELSE IF Head(log).op \in EmbeddingOps
         THEN <<VectorQuery(Head(log).field, Head(log).text.text)>>
              \o ComputedVectors(Tail(log))
         ELSE ComputedVectors(Tail(log))

\* C15: every search call, of either pipeline, carries a query text and no
\* vectors in mode "text", no query text (None, not an empty string) and the
\* computed vectors in mode "vectors", and both a query text and the computed
\* vectors in mode "hybrid" or without a mode.
C15_SearchArguments ==
    \A i \in CallsOf({"search"}) :
        LET c == calls[i]
            mode == retrieval.retrieval_mode
            computed == ComputedVectors(SubSeq(calls, 1, i - 1))
        IN  /\ mode = "text" => (c.vectors = <<>> /\ c.text.some)
            /\ mode = "vectors" => (c.text = None /\ c.vectors = computed)
            /\ mode \in {"hybrid", "unset"} => (c.text.some /\ c.vectors = computed)

\* The chat pipeline searched in mode "vectors" with two computed vectors.
C15_Witness ==
    /\ approach = "chat_vision"
    /\ retrieval.retrieval_mode = "vectors"
    /\ \E i \in CallsOf({"search"}) :
           /\ calls[i].text = None
           /\ Len(calls[i].vectors) = 2

\* The retrieve-then-read pipeline searched in mode "text" with its question.
C15_WitnessRetrieveThenRead ==
    /\ approach = "retrieve_then_read"
    /\ retrieval.retrieval_mode = "text"
    /\ \E i \in CallsOf({"search"}) :
           /\ calls[i].text = Some(original_user_query)
           /\ calls[i].vectors = <<>>

\* The embedding calls run_until_final_call owes to the vector fields: one
\* per field, in field order, each from the distilled query text.
EmbeddingsOwed ==
    IF has_vector(retrieval.retrieval_mode)
    THEN [k \in 1..Len(retrieval.vector_fields) |->
              EmbeddingCall(retrieval.vector_fields[k],
                            Some(get_search_query(chat_completion,
                                                  original_user_query).value))]
    ELSE <<>>

EmbeddingsMade == SelectSeq(calls, LAMBDA c : c.op \in EmbeddingOps)

\* The embeddings come before the search, the distillation before both, and
\* no request searches twice.
EmbeddingsThenSearch ==
    /\ Cardinality(CallsOf({"search"})) <= 1
    /\ \A i \in CallsOf(EmbeddingOps \cup {"search"}) :
           \E d \in CallsOf({"distill"}) : d < i
    /\ \A i \in CallsOf({"search"}) :
           /\ \A e \in CallsOf(EmbeddingOps) : e < i
           /\ EmbeddingsMade = EmbeddingsOwed
           /\ calls[i].vectors = ComputedVectors(EmbeddingsOwed)
    /\ Len(EmbeddingsMade) <= Len(EmbeddingsOwed)
    /\ EmbeddingsMade = SubSeq(EmbeddingsOwed, 1, Len(EmbeddingsMade))

C18_EncodingErrorPropagates ==
    [][/\ (/\ apc = "loop"
           /\ newest_to_oldest # <<>>
           /\ ~Encodable(Head(newest_to_oldest))
           /\ asmVars' # asmVars)
          => (apc' = "raised" /\ messages' = messages)
       /\ apc = "raised"
          => /\ apc' = "raised"
             /\ messages' = messages
             /\ calls' = calls
             /\ outcome' = outcome
             /\ failure' = "UnsupportedContentType"
             /\ ppc' = "failed"]_vars

\* The assembly raised on a mapping after it had inserted a newer turn, and
\* the request failed with that error.
C18_Witness ==
    /\ apc = "raised"
    /\ failure = "UnsupportedContentType"
    /\ ppc = "failed"
    /\ Len(messages) > Len(few_shots) + 2
    /\ ~Encodable(Head(newest_to_oldest))

\* C20 as stated: every answered request, of either approach, that asked for
\* streaming made its answer-completion call with stream set and handed the
\* caller a stream of events, and every one that did not made the call
\* without stream and handed the caller one completed response.
C20_AsStated ==
    ppc = "done" =>
        /\ outcome = (IF stream THEN "event_stream" ELSE "response")
        /\ \A i \in CallsOf({"answer"}) : calls[i].stream = stream

\* C23 as stated: the ceiling of the first assembly is the token limit minus
\* the number of characters of "Generate search query for: " + user query.
C23_AsStated ==
    (approach = "chat_vision" /\ ppc = "assemble_query") =>
        max_tokens = token_limit - (QueryRequestPrefixLen + Len(original_user_query))

\* C24: the prompt of RetrieveThenReadApproach.run is four messages: the
\* system template, the sample question, the sample answer, and the user's
\* question with the retrieved sources, whatever the number of sources and
\* the history; no earlier turn of the history is in it.
C24_PromptOfFourMessages ==
    (approach = "retrieve_then_read" /\ ppc \in {"answer", "done"}) =>
        /\ Len(messages) = 4
        /\ messages[1] = Msg(SYSTEM, SystemPrompt)
        /\ messages[2] = Msg(USER, "sample question")
        /\ messages[3] = Msg(ASSISTANT, "sample answer")
        /\ \E n \in 0..MaxSources : messages[4] = Msg(USER, SourcesContent(n))
        /\ \A i \in 1..(Len(history) - 1) :
               \A k \in 1..Len(messages) : messages[k] # history[i]

\* A prompt built for a conversation with two earlier turns and a search
\* that returned more than one document.
C24_Witness ==
    /\ approach = "retrieve_then_read"
    /\ ppc = "done"
    /\ Len(history) = 3
    /\ Len(messages) = 4
    /\ messages[4].content = "question, sources"

\* A prompt built from a search that returned nothing.
C24_WitnessNoSources ==
    /\ approach = "retrieve_then_read"
    /\ ppc = "done"
    /\ messages[4].content = "question, no source"

\* ---------------------------------------------------------------------
\* Specifications
\* ---------------------------------------------------------------------
\* A non-streamed reply: the overrides of the request and the content of the
\* model's response are the inputs.
InitReply ==
    /\ overrides \in [suggest_followup_questions : BOOLEAN]
    /\ completion \in StringsUpTo(MaxContent)
    /\ chat_resp = [content |-> <<>>, context |-> NoFollowups]
    /\ rpc = "await"
    /\ stream_rest = <<>>
    /\ quiet = 0
    /\ skipped = 0
    /\ stream_handle = "unopened"
    /\ asked = 0
    /\ followup_questions_started = FALSE
    /\ followup_content = <<>>
    /\ emitted = <<>>
    /\ spc = "idle"
    /\ few_shots = <<>>
    /\ history = <<>>
    /\ user_content = "q"
    /\ max_tokens = 0
    /\ messages = <<>>
    /\ total_token_count = 0
    /\ newest_to_oldest = <<>>
    /\ truncated = FALSE
    /\ apc = "idle"
    /\ approach = "chat_vision"
    /\ stream = FALSE
    /\ retrieval = [retrieval_mode |-> "unset", vector_fields |-> <<>>]
    /\ original_user_query = <<>>
    /\ token_limit = 0
    /\ chat_completion = [tool_calls |-> <<>>, content |-> None]
    /\ query_text = None
    /\ vectors = <<>>
    /\ calls = <<>>
    /\ failure = "none"
    /\ outcome = "none"
    /\ ppc = "idle"

SpecReply == InitReply /\ [][ReplyNext]_vars

\* A streamed reply: the upstream stream will deliver the response in pieces.
InitStream ==
    /\ overrides \in [suggest_followup_questions : BOOLEAN]
    /\ completion \in StringsUpTo(MaxStream) \cup {StreamScenario}
    /\ chat_resp = [content |-> <<>>, context |-> NoFollowups]
    /\ rpc = "idle"
    /\ stream_rest = completion
    /\ quiet = 0
    /\ skipped = 0
    /\ stream_handle = "unopened"
    /\ asked = 0
    /\ followup_questions_started = FALSE
    /\ followup_content = <<>>
    /\ emitted = <<>>
    /\ spc = "start"
    /\ few_shots = <<>>
    /\ history = <<>>
    /\ user_content = "q"
    /\ max_tokens = 0
    /\ messages = <<>>
    /\ total_token_count = 0
    /\ newest_to_oldest = <<>>
    /\ truncated = FALSE
    /\ apc = "idle"
    /\ approach = "chat_vision"
    /\ stream = FALSE
    /\ retrieval = [retrieval_mode |-> "unset", vector_fields |-> <<>>]
    /\ original_user_query = <<>>
    /\ token_limit = 0
    /\ chat_completion = [tool_calls |-> <<>>, content |-> None]
    /\ query_text = None
    /\ vectors = <<>>
    /\ calls = <<>>
    /\ failure = "none"
    /\ outcome = "none"
    /\ ppc = "idle"

SpecStream == InitStream /\ [][StreamNext]_vars

\* A streamed reply whose caller may stop consuming.
SpecCancel == InitStream /\ [][CancelNext]_vars

\* One call of get_messages_from_history.
InitAssemble ==
    /\ overrides = [suggest_followup_questions |-> FALSE]
    /\ completion = <<>>
    /\ chat_resp = [content |-> <<>>, context |-> NoFollowups]
    /\ rpc = "idle"
    /\ stream_rest = <<>>
    /\ quiet = 0
    /\ skipped = 0
    /\ stream_handle = "unopened"
    /\ asked = 0
    /\ followup_questions_started = FALSE
    /\ followup_content = <<>>
    /\ emitted = <<>>
    /\ spc = "idle"
    /\ few_shots \in FewShotChoices
    /\ history \in Histories
    /\ user_content \in UserContents
    /\ max_tokens \in 0..MaxCeil
    /\ messages = <<>>
    /\ total_token_count = 0
    /\ newest_to_oldest = <<>>
    /\ truncated = FALSE
    /\ apc = "build"
    /\ approach = "chat_vision"
    /\ stream = FALSE
    /\ retrieval = [retrieval_mode |-> "unset", vector_fields |-> <<>>]
    /\ original_user_query = <<>>
    /\ token_limit = 0
    /\ chat_completion = [tool_calls |-> <<>>, content |-> None]
    /\ query_text = None
    /\ vectors = <<>>
    /\ calls = <<>>
    /\ failure = "none"
    /\ outcome = "none"
    /\ ppc = "idle"

SpecAssemble == InitAssemble /\ [][AsmNext]_vars

\* One call of get_search_query on a response of the distillation call.
InitQuery ==
    /\ overrides = [suggest_followup_questions |-> FALSE]
    /\ completion = <<>>
    /\ chat_resp = [content |-> <<>>, context |-> NoFollowups]
    /\ rpc = "idle"
    /\ stream_rest = <<>>
    /\ quiet = 0
    /\ skipped = 0
    /\ stream_handle = "unopened"
    /\ asked = 0
    /\ followup_questions_started = FALSE
    /\ followup_content = <<>>
    /\ emitted = <<>>
    /\ spc = "idle"
    /\ few_shots = <<>>
    /\ history = <<>>
    /\ user_content = "q"
    /\ max_tokens = 0
    /\ messages = <<>>
    /\ total_token_count = 0
    /\ newest_to_oldest = <<>>
    /\ truncated = FALSE
    /\ apc = "idle"
    /\ approach = "chat_vision"
    /\ stream = FALSE
    /\ retrieval = [retrieval_mode |-> "unset", vector_fields |-> <<>>]
    /\ original_user_query \in UserQueries
    /\ token_limit = 0
    /\ chat_completion \in [tool_calls : ToolCallLists, content : Contents]
    /\ query_text = None
    /\ vectors = <<>>
    /\ calls = <<>>
    /\ failure = "none"
    /\ outcome = "none"
    /\ ppc = "get_search_query"

SpecQuery == InitQuery /\ [][QueryNext]_vars

\* A request served by either approach, from run to the answer or an error.
InitRequest ==
    /\ overrides = [suggest_followup_questions |-> FALSE]
    /\ completion = <<>>
    /\ chat_resp = [content |-> <<>>, context |-> NoFollowups]
    /\ rpc = "idle"
    /\ stream_rest = <<>>
    /\ quiet = 0
    /\ skipped = 0
    /\ stream_handle = "unopened"
    /\ asked = 0
    /\ followup_questions_started = FALSE
    /\ followup_content = <<>>
    /\ emitted = <<>>
    /\ spc = "idle"
    /\ few_shots = <<>>
    /\ user_content = "q"
    /\ max_tokens = 0
    /\ messages = <<>>
    /\ total_token_count = 0
    /\ newest_to_oldest = <<>>
    /\ truncated = FALSE
    /\ apc = "idle"
    /\ approach \in {"chat_vision", "retrieve_then_read"}
    /\ stream \in BOOLEAN
    /\ original_user_query \in UserQueries
    /\ history \in RequestHistories
    /\ token_limit \in IF approach = "chat_vision" THEN TokenLimits ELSE {4000}
    /\ retrieval \in IF approach = "chat_vision"
                     THEN [retrieval_mode : RetrievalModes,
                           vector_fields : VectorFieldChoices]
                     ELSE [retrieval_mode : RetrievalModes,
                           vector_fields : {<<"embedding">>}]
    /\ chat_completion = [tool_calls |-> <<>>, content |-> None]
    /\ query_text = None
    /\ vectors = <<>>
    /\ calls = <<>>
    /\ failure = "none"
    /\ outcome = "none"
    /\ ppc = "run"

SpecRequest == InitRequest /\ [][RequestNext]_vars

Init == InitReply \/ InitStream \/ InitAssemble \/ InitQuery \/ InitRequest

Next == ReplyNext \/ CancelNext \/ RequestNext

Spec == Init /\ [][Next]_vars

====
